---- MODULE Spec2Model ----
(***************************************************************************)
(* A model of the birdeye-go client: construction of a Client from         *)
(* functional options (client.go), the retrying transport configured in    *)
(* NewClient and used by doGet, the envelope decoder parseResponse and the  *)
(* four public operations built on doGet.                                  *)
(*                                                                         *)
(* Durations are in milliseconds.  An error value is the chain obtained by *)
(* unwrapping it, outermost wrapper first; the empty chain is the nil      *)
(* error.                                                                  *)
(***************************************************************************)
EXTENDS Integers, Sequences, FiniteSets, TLC

(***************************************************************************)
(* Program constants (client.go, const block).                             *)
(***************************************************************************)
DefaultBaseURL == "https://public-api.birdeye.so"
DefaultTimeout == 10000
DefaultMaxRetries == 3
DefaultRetryWaitMin == 500
DefaultRetryWaitMax == 3000

(***************************************************************************)
(* Bounds of the model.                                                    *)
(***************************************************************************)
\* longest option list passed to NewClient
MaxOpts == 2
\* WithMaxRetries is given a value in 0 .. MaxRetriesOpt
MaxRetriesOpt == 1
\* operations called one after the other on one Client
MaxCalls == 2

(***************************************************************************)
(* Values.                                                                 *)
(***************************************************************************)
\* Logger values: the nil interface, the default noopLogger{} and a caller's logger
NilLogger == "nil"
NoopLogger == "noopLogger"
UserLogger == "userLogger"
\* *http.Client values a caller can pass: the nil pointer and a client of its own
NilHTTP == "nil"
UserHTTP == "userHTTPClient"

CustomBaseURL == "https://custom.api.example.com"
\* a base URL that url.Parse rejects (invalid escape), so that
\* http.NewRequestWithContext fails
BadBaseURL == "%zz"
CustomTimeout == 30000
CustomWaitMin == 100
CustomWaitMax == 200

APIKeys == {"", "test-key"}
OtherAPIKey == "other-key"

(***************************************************************************)
(* config and the options (client.go:69-126).                              *)
(***************************************************************************)
DefaultConfig ==
  [baseURL |-> DefaultBaseURL,
   timeout |-> DefaultTimeout,
   maxRetries |-> DefaultMaxRetries,
   retryWaitMin |-> DefaultRetryWaitMin,
   retryWaitMax |-> DefaultRetryWaitMax,
   logger |-> NoopLogger,
   httpClient |-> NilHTTP]

WithBaseURL(c, url) == [c EXCEPT !.baseURL = url]
WithTimeout(c, d) == [c EXCEPT !.timeout = d]
WithMaxRetries(c, n) == [c EXCEPT !.maxRetries = n]
WithRetryWait(c, min, max) == [c EXCEPT !.retryWaitMin = min, !.retryWaitMax = max]
\* a WithLogger that also puts the default transport back
WithLogger_ResetsTransport(c, l) == [c EXCEPT !.logger = l, !.httpClient = NilHTTP]
WithLogger(c, l) == [c EXCEPT !.logger = l]
WithHTTPClient(c, h) == [c EXCEPT !.httpClient = h]

\* An Option value: the name of its constructor and the arguments it closed over.
Opt(name, s, n, m) == [name |-> name, s |-> s, n |-> n, m |-> m]

Options ==
  {Opt("WithBaseURL", u, 0, 0) : u \in {CustomBaseURL, BadBaseURL}}
  \cup {Opt("WithTimeout", "", CustomTimeout, 0)}
  \cup {Opt("WithMaxRetries", "", n, 0) : n \in 0..MaxRetriesOpt}
  \cup {Opt("WithRetryWait", "", CustomWaitMin, CustomWaitMax)}
  \cup {Opt("WithLogger", l, 0, 0) : l \in {NilLogger, UserLogger}}
  \cup {Opt("WithHTTPClient", h, 0, 0) : h \in {NilHTTP, UserHTTP}}

\* opt(cfg): calling the Option function on the config
ApplyOption(c, o) ==
  CASE o.name = "WithBaseURL" -> WithBaseURL(c, o.s)
    [] o.name = "WithTimeout" -> WithTimeout(c, o.n)
    [] o.name = "WithMaxRetries" -> WithMaxRetries(c, o.n)
    [] o.name = "WithRetryWait" -> WithRetryWait(c, o.n, o.m)
    [] o.name = "WithLogger" -> WithLogger(c, o.s)
    [] o.name = "WithHTTPClient" -> WithHTTPClient(c, o.s)

\* the options applied from the last one to the first one
RECURSIVE ApplyOptions_Reversed(_, _)
ApplyOptions_Reversed(c, opts) ==
  IF opts = <<>> THEN c
  ELSE ApplyOption(ApplyOptions_Reversed(c, Tail(opts)), Head(opts))

\* for _, opt := range opts { opt(cfg) }
RECURSIVE ApplyOptions(_, _)
ApplyOptions(c, opts) ==
  IF opts = <<>> THEN c
  ELSE ApplyOptions(ApplyOption(c, Head(opts)), Tail(opts))

OptSeqs == UNION {[1..n -> Options] : n \in 0..MaxOpts}

\* the (apiKey, opts) pairs NewClient is called with
NewClientInputs == (APIKeys \X OptSeqs) \cup {<<OtherAPIKey, <<>>>>}

(***************************************************************************)
(* Errors.                                                                 *)
(***************************************************************************)
NoBody == [form |-> "none", success |-> FALSE, message |-> "", data |-> <<>>]

Err(kind, code, msg, path, body) ==
  [kind |-> kind, code |-> code, msg |-> msg, path |-> path, body |-> body]

NoError == <<>>
\* errors.New(msg)
ErrorsNew(msg) == <<Err("errorString", 0, msg, "", NoBody)>>
\* fmt.Errorf(msg + ": %w", err)
Wrap(msg, err) == <<Err("wrap", 0, msg, "", NoBody)>> \o err
\* &APIError{StatusCode, Message, Path}
APIError(status, body, path) == <<Err("APIError", status, "", path, body)>>
\* ctx.Err() of a context that is done
CtxError(c) == <<Err("ctx", 0, c, "", NoBody)>>

\* a type assertion on the error itself, without unwrapping
IsAPIError_TopOnly(err) ==
  IF err # <<>> /\ Head(err).kind = "APIError"
  THEN [ok |-> TRUE, e |-> Head(err)]
  ELSE [ok |-> FALSE, e |-> Err("none", 0, "", "", NoBody)]

\* errors.As(err, &apiErr): the first *APIError met when unwrapping
RECURSIVE IsAPIError(_)
IsAPIError(err) ==
  IF err = <<>> THEN [ok |-> FALSE, e |-> Err("none", 0, "", "", NoBody)]
  ELSE IF Head(err).kind = "APIError" THEN [ok |-> TRUE, e |-> Head(err)]
  ELSE IsAPIError(Tail(err))

\* errors.Is(err, context.Canceled) || errors.Is(err, context.DeadlineExceeded)
CarriesCtxError(err, c) ==
  \E i \in 1..Len(err) : err[i].kind = "ctx" /\ err[i].msg = c

\* IsClientError that takes 500 for a client error
IsClientError_UpTo500(e) == e.code >= 400 /\ e.code <= 500

IsNotFound(e) == e.code = 404
IsRateLimited(e) == e.code = 429
IsServerError(e) == e.code >= 500
IsClientError(e) == e.code >= 400 /\ e.code < 500

(***************************************************************************)
(* NewClient (client.go:139-208).                                          *)
(***************************************************************************)
NilClient ==
  [apiKey |-> "", baseURL |-> "", logger |-> NilLogger,
   httpClient |-> [kind |-> "nil", id |-> NilHTTP, RetryMax |-> 0,
                   RetryWaitMin |-> 0, RetryWaitMax |-> 0, Timeout |-> 0]]

\* retryablehttp.NewClient() with the fields NewClient sets, as StandardClient()
RetryClient(cfg) ==
  [kind |-> "retry", id |-> NilHTTP, RetryMax |-> cfg.maxRetries,
   RetryWaitMin |-> cfg.retryWaitMin, RetryWaitMax |-> cfg.retryWaitMax,
   Timeout |-> cfg.timeout]

CustomClient(h) ==
  [kind |-> "custom", id |-> h, RetryMax |-> 0,
   RetryWaitMin |-> 0, RetryWaitMax |-> 0, Timeout |-> 0]

\* NewClient without the apiKey check
NewClient_NoKeyCheck(apiKey, opts) ==
  LET cfg == ApplyOptions(DefaultConfig, opts)
      httpClient == IF cfg.httpClient # NilHTTP
                    THEN CustomClient(cfg.httpClient)
                    ELSE RetryClient(cfg)
  IN [client |-> [apiKey |-> apiKey, baseURL |-> cfg.baseURL,
                  httpClient |-> httpClient, logger |-> cfg.logger],
      err |-> NoError]

\* NewClient that builds the retrying client whatever cfg.httpClient is
NewClient_AlwaysRetry(apiKey, opts) ==
  IF apiKey = ""
  THEN [client |-> NilClient, err |-> ErrorsNew("api key is required")]
  ELSE LET cfg == ApplyOptions(DefaultConfig, opts)
       IN [client |-> [apiKey |-> apiKey, baseURL |-> cfg.baseURL,
                       httpClient |-> RetryClient(cfg), logger |-> cfg.logger],
           err |-> NoError]

\* NewClient that sets the configured timeout on a caller-supplied client
NewClient_TimeoutOnCustom(apiKey, opts) ==
  IF apiKey = ""
  THEN [client |-> NilClient, err |-> ErrorsNew("api key is required")]
  ELSE LET cfg == ApplyOptions(DefaultConfig, opts)
           httpClient == IF cfg.httpClient # NilHTTP
                         THEN [CustomClient(cfg.httpClient) EXCEPT !.Timeout = cfg.timeout]
                         ELSE RetryClient(cfg)
       IN [client |-> [apiKey |-> apiKey,
                       baseURL |-> cfg.baseURL,
                       httpClient |-> httpClient,
                       logger |-> cfg.logger],
           err |-> NoError]

NewClient(apiKey, opts) ==
  IF apiKey = ""
  THEN [client |-> NilClient, err |-> ErrorsNew("api key is required")]
  ELSE LET cfg == ApplyOptions(DefaultConfig, opts)
           httpClient == IF cfg.httpClient # NilHTTP
                         THEN CustomClient(cfg.httpClient)
                         ELSE RetryClient(cfg)
       IN [client |-> [apiKey |-> apiKey,
                       baseURL |-> cfg.baseURL,
                       httpClient |-> httpClient,
                       logger |-> cfg.logger],
           err |-> NoError]

(***************************************************************************)
(* Responses and response bodies.  A body is what the server wrote: no     *)
(* bytes, bytes that are not JSON, or a JSON envelope                      *)
(* {"success": .., "message": .., "data": ..}.                             *)
(***************************************************************************)
EmptyBody == [form |-> "empty", success |-> FALSE, message |-> "", data |-> <<>>]
TextBody == [form |-> "text", success |-> FALSE, message |-> "", data |-> <<>>]
Envelope(success, message, data) ==
  [form |-> "envelope", success |-> success, message |-> message, data |-> data]

\* the decoded payload of the single-token endpoints, as a field map
TokenData == [f \in {"value"} |-> 15]
\* a flat address -> price map for the given addresses
PriceMap(keys) == [k \in {keys[j] : j \in 1..Len(keys)} |-> 2]
\* a price map the server answers whatever the keys asked for: the first key of
\* every key list at another price
OtherPrices == [k \in {"1"} |-> 3]

\* what a server may answer with status 200 to a request for `keys`
OKBodies(op, keys) ==
  {EmptyBody, Envelope(FALSE, "", <<>>), Envelope(FALSE, "token not found", <<>>)}
  \cup (IF op = "GetMultiplePrices"
        THEN {Envelope(TRUE, "", PriceMap(keys)), Envelope(TRUE, "", <<>>),
              Envelope(TRUE, "", OtherPrices)}
        ELSE {Envelope(TRUE, "", TokenData)})

Statuses == {200, 201, 400, 404, 429, 500, 503}

\* an attempt's outcome: a response, or an error of the HTTP client
\* retryAfter: the Retry-After header in seconds (0: the header is absent)
Response(status, body) ==
  [kind |-> "status", status |-> status, body |-> body, err |-> NoError,
   retryAfter |-> 0]
NoResponse ==
  [kind |-> "none", status |-> 0, body |-> NoBody, err |-> NoError, retryAfter |-> 0]
\* *url.Error{Op: "Get", Err: cause}
URLError(cause) == <<Err("url.Error", 0, "Get", "", NoBody)>> \o cause
NetError == <<Err("net", 0, "connection error", "", NoBody)>>
Failure(cause) ==
  [kind |-> "error", status |-> 0, body |-> NoBody, err |-> URLError(cause),
   retryAfter |-> 0]

\* the Retry-After header a rate-limiting server sends, in seconds
RetryAfterSeconds == 5
\* the response r with the header Retry-After: secs
WithRetryAfter(r, secs) == [r EXCEPT !.retryAfter = secs]

\* the outcomes the network can produce for one request
Outcomes(op, keys) ==
  {Response(200, b) : b \in OKBodies(op, keys)}
  \cup {Response(s, b) : s \in {201, 400, 404}, b \in {EmptyBody, TextBody}}
  \cup {Response(s, TextBody) : s \in {429, 500, 503}}
  \cup {WithRetryAfter(Response(429, TextBody), RetryAfterSeconds)}
  \cup {Failure(NetError)}

(***************************************************************************)
(* The retry policy NewClient installs (client.go:175-197).                *)
(***************************************************************************)
\* the policy retrying every status >= 400
CheckRetry_Retry4xx(ctxE, r) ==
  IF ctxE # "none" THEN [retry |-> FALSE, err |-> CtxError(ctxE)]
  ELSE IF r.err # NoError THEN [retry |-> TRUE, err |-> r.err]
  ELSE IF r.status >= 400 THEN [retry |-> TRUE, err |-> NoError]
  ELSE [retry |-> FALSE, err |-> NoError]

\* the policy without the check of ctx.Err()
CheckRetry_NoCtx(ctxE, r) ==
  IF r.err # NoError THEN [retry |-> TRUE, err |-> r.err]
  ELSE IF r.status = 429 THEN [retry |-> TRUE, err |-> NoError]
  ELSE IF r.status >= 500 THEN [retry |-> TRUE, err |-> NoError]
  ELSE [retry |-> FALSE, err |-> NoError]

CheckRetry(ctxE, r) ==
  IF ctxE # "none" THEN [retry |-> FALSE, err |-> CtxError(ctxE)]
  ELSE IF r.err # NoError THEN [retry |-> TRUE, err |-> r.err]
  ELSE IF r.status = 429 THEN [retry |-> TRUE, err |-> NoError]
  ELSE IF r.status >= 500 THEN [retry |-> TRUE, err |-> NoError]
  ELSE [retry |-> FALSE, err |-> NoError]

(***************************************************************************)
(* parseResponse (client.go:275-294).                                      *)
(***************************************************************************)
NoData == <<>>
Result(val, isNil, err) == [val |-> val, isNil |-> isNil, err |-> err]
NoResult == Result(NoData, TRUE, NoError)

\* a decoder that takes any bytes for an envelope with zero fields
Unmarshal_Lenient(body) ==
  IF body.form = "envelope"
  THEN [success |-> body.success, message |-> body.message,
        data |-> body.data, err |-> NoError]
  ELSE [success |-> FALSE, message |-> "", data |-> NoData, err |-> NoError]

\* json.Unmarshal into {Success, Message, Data}: fails on bytes that are not
\* a JSON envelope
Unmarshal(body) ==
  IF body.form = "envelope"
  THEN [success |-> body.success, message |-> body.message,
        data |-> body.data, err |-> NoError]
  ELSE [success |-> FALSE, message |-> "", data |-> NoData,
        err |-> <<Err("json", 0, "syntax error", "", NoBody)>>]

\* parseResponse reporting success=false as an *APIError
parseResponse_StatusError(body) ==
  LET resp == Unmarshal(body) IN
  IF resp.err # NoError
  THEN Result(NoData, TRUE, Wrap("unmarshal response", resp.err))
  ELSE IF ~resp.success
  THEN Result(NoData, TRUE, APIError(200, body, ""))
  ELSE Result(resp.data, FALSE, NoError)

parseResponse(body) ==
  LET resp == Unmarshal(body) IN
  IF resp.err # NoError
  THEN Result(NoData, TRUE, Wrap("unmarshal response", resp.err))
  ELSE IF ~resp.success
  THEN IF resp.message # ""
       THEN Result(NoData, TRUE,
                   <<Err("errorf", 0, "birdeye api error: " \o resp.message, "",
                         NoBody)>>)
       ELSE Result(NoData, TRUE, ErrorsNew("birdeye api returned success=false"))
  ELSE Result(resp.data, FALSE, NoError)

(***************************************************************************)
(* State.                                                                  *)
(***************************************************************************)
VARIABLES
  pc,            \* where the program is: "start" (no Client yet), "idle",
                 \* "do" (in httpClient.Do, no request on the wire),
                 \* "inflight", "backoff", "read" (io.ReadAll), "returned",
                 \* "panicked"
  client,        \* the Client NewClient returned
  args,          \* the arguments of the operation in progress (or the last one)
  calls,         \* operations begun on the Client
  ctxErr,        \* ctx.Err() of the operation's context: "none" while it is live
  attempt,       \* calls of the HTTP client's Do made by the current doGet
  sent,          \* requests put on the wire by the current operation
  resp,          \* the outcome of the last attempt of the current doGet
  result,        \* what the last operation returned
  off,           \* GetMultiplePrices: the loop index i
  acc,           \* GetMultiplePrices: the result map
  doGetRet,      \* what the last doGet of the operation returned: (body, err)
  cancelAt,      \* history: pc when the context was cancelled ("before": on entry)
  sentAtCancel,  \* history: sent when the context was cancelled
  reqs,          \* history: the doGet calls of the current operation, in order
  gots,          \* history: GetMultiplePrices: the decoded *batchPrices, in order
  wait,          \* the time (ms) the retrying client sleeps before the next attempt
  opened,        \* history: response bodies the operation's doGet calls obtained
  closed         \* history: resp.Body.Close() calls of the operation's doGet calls

vars == <<pc, client, args, calls, ctxErr, attempt, sent, resp, result, off, acc,
          doGetRet, cancelAt, sentAtCancel, reqs, gots, wait, opened, closed>>

batchSize == 100

Ops == {"GetPrice", "GetTokenOverview", "GetTokenSecurity", "GetMultiplePrices"}

Path(op) ==
  CASE op = "GetPrice" -> "/defi/price"
    [] op = "GetTokenOverview" -> "/defi/token_overview"
    [] op = "GetTokenSecurity" -> "/defi/token_security"
    [] op = "GetMultiplePrices" -> "/defi/multi_price"

Args(op, apiKey, opts, address, keys) ==
  [op |-> op, apiKey |-> apiKey, opts |-> opts, address |-> address, keys |-> keys]
NoArgs == Args("none", "", <<>>, "", <<>>)

\* url.Parse of baseURL + path (+ "?" + query) in http.NewRequestWithContext
ParsesOK(baseURL) == baseURL # BadBaseURL

Min(a, b) == IF a < b THEN a ELSE b

\* a batch that starts again at the first key
Batch_FromStart(keys, i) == SubSeq(keys, 1, Min(i + batchSize, Len(keys)))

\* addresses[i:end] of the loop iteration at index i
Batch(keys, i) == SubSeq(keys, i + 1, Min(i + batchSize, Len(keys)))

\* a merge in which the price already in the result is kept
Merge_KeepFirst(m, batchPrices) ==
  [k \in DOMAIN m \cup DOMAIN batchPrices |->
     IF k \in DOMAIN m THEN m[k] ELSE batchPrices[k]]

\* for addr, price := range *batchPrices { result[addr] = price }
Merge(m, batchPrices) ==
  [k \in DOMAIN m \cup DOMAIN batchPrices |->
     IF k \in DOMAIN batchPrices THEN batchPrices[k] ELSE m[k]]

(***************************************************************************)
(* The part of the state an operation's step decides:                      *)
(* pc, result, off, acc, attempt, resp, doGetRet, and the doGet call (req)  *)
(* and the decoded batch (got) the step adds to the histories.             *)
(***************************************************************************)
Ret(body, err) == [body |-> body, err |-> err]
NoRet == Ret(NoBody, NoError)

Step(p, res, i, m, n, r, ret) ==
  [pc |-> p, result |-> res, off |-> i, acc |-> m, attempt |-> n, resp |-> r,
   doGetRet |-> ret, req |-> <<>>, got |-> <<>>, wait |-> 0]

\* strings.Join(batch, ","): the keys with a "," between neighbours
Join(batch) ==
  [j \in 1..(2 * Len(batch) - 1) |->
     IF j % 2 = 1 THEN batch[(j + 1) \div 2] ELSE ","]

\* c.doGet(ctx, path, params) with params = {name: value}
Request(path, name, value) == [path |-> path, name |-> name, value |-> value]

\* the step calls doGet with this request
Issue(st, request) == [st EXCEPT !.req = <<request>>]
\* the step decoded the batch prices d
Got(st, d) == [st EXCEPT !.got = <<d>>]
\* the step begins a sleep of d ms
Sleep(st, d) == [st EXCEPT !.wait = d]

\* the operation returns res
OpReturn(res, n, r, ret) == Step("returned", res, off, NoData, n, r, ret)

\* doGet up to the call of c.httpClient.Do (client.go:211-232), for the batch
\* at index i
DoGetEnter(i, m, n, r) ==
  IF ~ParsesOK(client.baseURL)
  THEN LET err == Wrap("create request", <<Err("url.Error", 0, "parse", "", NoBody)>>)
       IN OpReturn(Result(NoData, TRUE, err), n, r, Ret(NoBody, err))
  ELSE IF client.logger = NilLogger
  THEN Step("panicked", NoResult, i, m, n, r, NoRet)
  ELSE Step("do", NoResult, i, m, 0, NoResponse, NoRet)

\* an operation that returns the prices merged so far together with the error
AfterDoGet_Partial(body, err, n, r) ==
  IF err # NoError THEN OpReturn(Result(acc, FALSE, err), n, r, Ret(body, err))
  ELSE LET p == parseResponse(body) IN
    IF p.err # NoError
    THEN OpReturn(Result(acc, FALSE, p.err), n, r, Ret(body, err))
    ELSE IF args.op # "GetMultiplePrices" THEN OpReturn(p, n, r, Ret(body, err))
    ELSE LET merged == Merge(acc, p.val) IN
      IF off + batchSize < Len(args.keys)
      THEN Got(Issue(DoGetEnter(off + batchSize, merged, n, r),
                     Request(Path(args.op), "list_address",
                             Join(Batch(args.keys, off + batchSize)))),
               p.val)
      ELSE Got(OpReturn(Result(merged, FALSE, NoError), n, r, Ret(body, err)),
               p.val)

\* an operation that starts the next batch before merging the one it decoded
AfterDoGet_NoMerge(body, err, n, r) ==
  IF err # NoError THEN OpReturn(Result(NoData, TRUE, err), n, r, Ret(body, err))
  ELSE LET p == parseResponse(body) IN
    IF p.err # NoError THEN OpReturn(p, n, r, Ret(body, err))
    ELSE IF args.op # "GetMultiplePrices" THEN OpReturn(p, n, r, Ret(body, err))
    ELSE LET merged == Merge(acc, p.val) IN
      IF off + batchSize < Len(args.keys)
      THEN Got(Issue(DoGetEnter(off + batchSize, acc, n, r),
                     Request(Path(args.op), "list_address",
                             Join(Batch(args.keys, off + batchSize)))),
               p.val)
      ELSE Got(OpReturn(Result(merged, FALSE, NoError), n, r, Ret(body, err)),
               p.val)

\* the operation from the return of doGet on (price.go, token_overview.go,
\* token_security.go: the lines after c.doGet)
AfterDoGet(body, err, n, r) ==
  IF err # NoError THEN OpReturn(Result(NoData, TRUE, err), n, r, Ret(body, err))
  ELSE LET p == parseResponse(body) IN
    IF p.err # NoError THEN OpReturn(p, n, r, Ret(body, err))
    ELSE IF args.op # "GetMultiplePrices" THEN OpReturn(p, n, r, Ret(body, err))
    ELSE LET merged == Merge(acc, p.val) IN
      IF off + batchSize < Len(args.keys)
      THEN Got(Issue(DoGetEnter(off + batchSize, merged, n, r),
                     Request(Path(args.op), "list_address",
                             Join(Batch(args.keys, off + batchSize)))),
               p.val)
      ELSE Got(OpReturn(Result(merged, FALSE, NoError), n, r, Ret(body, err)),
               p.val)

\* doGet from the return of c.httpClient.Do with an error (client.go:233-236)
DoFailed(err, n, r) ==
  AfterDoGet(NoBody, Wrap("execute request", err), n, r)

\* a doGet that takes every 2xx status for success
DoGetStatus_Any2xx(n, r) ==
  IF r.status < 200 \/ r.status > 299
  THEN AfterDoGet(NoBody, APIError(r.status, r.body, Path(args.op)), n, r)
  ELSE AfterDoGet(r.body, NoError, n, r)

\* doGet after io.ReadAll succeeded (client.go:249-264)
DoGetStatus(n, r) ==
  IF r.status # 200
  THEN AfterDoGet(NoBody, APIError(r.status, r.body, Path(args.op)), n, r)
  ELSE AfterDoGet(r.body, NoError, n, r)

(***************************************************************************)
(* retryablehttp.Client.Do as NewClient configures it (RetryMax,           *)
(* CheckRetry, no ErrorHandler), behind StandardClient(): what follows the  *)
(* n-th attempt's outcome r.                                               *)
(***************************************************************************)
GiveUp(n, err) ==
  <<Err("wrap", n, "giving up after attempt(s)", "", NoBody)>> \o err

\* one retry too many
RetryRemain_OffByOne(n) == client.httpClient.RetryMax - (n - 1) + 1
\* the attempts made so far are not counted
RetryRemain_NotCounted(n) == client.httpClient.RetryMax

\* one budget for the whole operation: the retries of earlier doGet calls count
RetryRemain_Shared(n) == client.httpClient.RetryMax - (sent - Len(reqs))

RetryRemain(n) == client.httpClient.RetryMax - (n - 1)

\* the error of an earlier attempt is kept: a response is returned only when
\* the first attempt got it
RetryDo_StaleError(r, n) ==
  LET chk == CheckRetry(ctxErr, r) IN
  IF chk.retry /\ RetryRemain(n) > 0
  THEN Step("backoff", result, off, acc, n, r, NoRet)
  ELSE IF r.err = NoError /\ chk.err = NoError /\ ~chk.retry /\ n = 1
  THEN Step("read", result, off, acc, n, r, NoRet)
  ELSE DoFailed(URLError(GiveUp(n, IF chk.err # NoError THEN chk.err ELSE r.err)),
                n, r)

\* 2^k
RECURSIVE Pow2(_)
Pow2(k) == IF k = 0 THEN 1 ELSE 2 * Pow2(k - 1)

\* retryablehttp.DefaultBackoff(min, max, attemptNum, resp), the Backoff NewClient
\* leaves in place: the Retry-After of a 429 or 503 when it has one, else
\* min * 2^attemptNum capped at max
Backoff(min, max, attemptNum, r) ==
  IF r.kind = "status" /\ r.status \in {429, 503} /\ r.retryAfter > 0
  THEN r.retryAfter * 1000
  ELSE LET mult == Pow2(attemptNum) * min
       IN IF mult > max THEN max ELSE mult

RetryDo(r, n) ==
  LET chk == CheckRetry(ctxErr, r) IN
  IF chk.retry /\ RetryRemain(n) > 0
  THEN Sleep(Step("backoff", result, off, acc, n, r, NoRet),
             Backoff(client.httpClient.RetryWaitMin, client.httpClient.RetryWaitMax,
                     n - 1, r))
  ELSE IF r.err = NoError /\ chk.err = NoError /\ ~chk.retry
  THEN Step("read", result, off, acc, n, r, NoRet)
  ELSE DoFailed(URLError(GiveUp(n, IF chk.err # NoError THEN chk.err ELSE r.err)),
                n, r)

(***************************************************************************)
(* Inputs of the operations.                                               *)
(***************************************************************************)
Addresses == {"", "test-address"}

\* the key list "1", "2", .. "n"
KeyList(n) == [j \in 1..n |-> ToString(j)]
\* the same list with the key at position p replaced by the empty string
WithEmptyKey(keys, p) == [keys EXCEPT ![p] = ""]

KeyLists ==
  {KeyList(0), KeyList(1), KeyList(2), WithEmptyKey(KeyList(2), 2),
   KeyList(batchSize), KeyList(batchSize + 1),
   WithEmptyKey(KeyList(batchSize + 1), batchSize + 1)}

Contexts == {"none", "canceled", "deadline"}

(***************************************************************************)
(* Initial state: nothing constructed yet.                                 *)
(***************************************************************************)
Init ==
  /\ pc = "start"
  /\ client = NilClient
  /\ args = NoArgs
  /\ calls = 0
  /\ ctxErr = "none"
  /\ attempt = 0
  /\ sent = 0
  /\ resp = NoResponse
  /\ result = NoResult
  /\ off = 0
  /\ acc = NoData
  /\ doGetRet = NoRet
  /\ cancelAt = "never"
  /\ sentAtCancel = 0
  /\ reqs = <<>>
  /\ gots = <<>>
  /\ wait = 0
  /\ opened = 0
  /\ closed = 0

Set(st) ==
  /\ pc' = st.pc
  /\ result' = st.result
  /\ off' = st.off
  /\ acc' = st.acc
  /\ attempt' = st.attempt
  /\ resp' = st.resp
  /\ doGetRet' = st.doGetRet
  /\ reqs' = reqs \o st.req
  /\ gots' = gots \o st.got
  /\ wait' = st.wait
  /\ opened' = IF st.pc = "read" THEN opened + 1 ELSE opened

(***************************************************************************)
(* NewClient(apiKey, opts...)                                              *)
(***************************************************************************)
CallNewClient ==
  /\ pc = "start"
  /\ \E input \in NewClientInputs :
       LET apiKey == input[1]
           opts == input[2]
           r == NewClient(apiKey, opts)
       IN
       /\ args' = Args("NewClient", apiKey, opts, "", <<>>)
       /\ client' = r.client
       /\ result' = Result(NoData, r.err # NoError, r.err)
       /\ pc' = IF r.err = NoError THEN "idle" ELSE "start"
  /\ UNCHANGED <<calls, ctxErr, attempt, sent, resp, off, acc, doGetRet, cancelAt,
                 sentAtCancel, reqs, gots, wait, opened, closed>>

(***************************************************************************)
(* The single-token operations up to their first blocking point            *)
(* (GetPrice, GetTokenOverview, GetTokenSecurity).                         *)
(***************************************************************************)
\* the operation without the check of the address
GetToken_NoValidation(op, address) ==
  Issue(DoGetEnter(0, NoData, 0, NoResponse),
        Request(Path(op), "address", <<address>>))

\* the operations reporting an empty address with the path of GetPrice
GetToken_PricePath(op, address) ==
  IF address = ""
  THEN OpReturn(Result(NoData, TRUE, <<Err("APIError", 400, "address is required",
                                          "/defi/price", NoBody)>>), 0, NoResponse, NoRet)
  ELSE Issue(DoGetEnter(0, NoData, 0, NoResponse),
             Request(Path(op), "address", <<address>>))

GetToken(op, address) ==
  IF address = ""
  THEN OpReturn(Result(NoData, TRUE, <<Err("APIError", 400, "address is required",
                                          Path(op), NoBody)>>), 0, NoResponse, NoRet)
  ELSE Issue(DoGetEnter(0, NoData, 0, NoResponse),
             Request(Path(op), "address", <<address>>))

\* GetMultiplePrices returning a nil map for an empty list
GetMultiplePrices_NilForEmpty(addresses) ==
  IF Len(addresses) = 0
  THEN OpReturn(Result(NoData, TRUE, NoError), 0, NoResponse, NoRet)
  ELSE IF \E j \in 1..Len(addresses) : addresses[j] = ""
  THEN OpReturn(Result(NoData, TRUE,
                  <<Err("APIError", 400, "address list contains empty string",
                        Path("GetMultiplePrices"), NoBody)>>), 0, NoResponse, NoRet)
  ELSE Issue(DoGetEnter(0, NoData, 0, NoResponse),
             Request(Path("GetMultiplePrices"), "list_address",
                     Join(Batch(addresses, 0))))

\* GetMultiplePrices validating only the keys of the batch it is about to send
GetMultiplePrices_BatchValidation(addresses) ==
  IF Len(addresses) = 0
  THEN OpReturn(Result(NoData, FALSE, NoError), 0, NoResponse, NoRet)
  ELSE IF \E j \in 1..Min(batchSize, Len(addresses)) : addresses[j] = ""
  THEN OpReturn(Result(NoData, TRUE,
                  <<Err("APIError", 400, "address list contains empty string",
                        Path("GetMultiplePrices"), NoBody)>>), 0, NoResponse, NoRet)
  ELSE Issue(DoGetEnter(0, NoData, 0, NoResponse),
             Request(Path("GetMultiplePrices"), "list_address",
                     Join(Batch(addresses, 0))))

\* GetMultiplePrices up to its first blocking point
GetMultiplePrices(addresses) ==
  IF Len(addresses) = 0
  THEN OpReturn(Result(NoData, FALSE, NoError), 0, NoResponse, NoRet)
  ELSE IF \E j \in 1..Len(addresses) : addresses[j] = ""
  THEN OpReturn(Result(NoData, TRUE,
                  <<Err("APIError", 400, "address list contains empty string",
                        Path("GetMultiplePrices"), NoBody)>>), 0, NoResponse, NoRet)
  ELSE Issue(DoGetEnter(0, NoData, 0, NoResponse),
             Request(Path("GetMultiplePrices"), "list_address",
                     Join(Batch(addresses, 0))))

\* a caller starts an operation with a context that is live or already done
Call ==
  /\ pc = "idle"
  /\ calls < MaxCalls
  /\ \E op \in Ops, c \in Contexts :
       /\ ctxErr' = c
       /\ cancelAt' = IF c = "none" THEN "never" ELSE "before"
       /\ \/ /\ op # "GetMultiplePrices"
             /\ \E address \in Addresses :
                  /\ args' = Args(op, "", <<>>, address, <<>>)
                  /\ Set(GetToken(op, address))
          \/ /\ op = "GetMultiplePrices"
             /\ \E addresses \in KeyLists :
                  /\ args' = Args(op, "", <<>>, "", addresses)
                  /\ Set(GetMultiplePrices(addresses))
  /\ calls' = calls + 1
  /\ sent' = 0
  /\ sentAtCancel' = 0
  /\ UNCHANGED <<client, closed>>

\* the caller cancels the context, or its deadline passes
Cancel ==
  /\ pc \in {"do", "inflight", "backoff", "read"}
  /\ ctxErr = "none"
  /\ \E c \in {"canceled", "deadline"} : ctxErr' = c
  /\ cancelAt' = pc
  /\ sentAtCancel' = sent
  /\ UNCHANGED <<pc, client, args, calls, attempt, sent, resp, result, off, acc,
                 doGetRet, reqs, gots, wait, opened, closed>>

(***************************************************************************)
(* The built-in transport.                                                 *)
(***************************************************************************)
BuiltIn == client.httpClient.kind = "retry"

\* an attempt begins: the HTTP transport refuses a request whose context is
\* done, and sends it otherwise
StartAttempt ==
  /\ pc = "do"
  /\ BuiltIn
  /\ IF ctxErr # "none"
     THEN /\ Set(RetryDo(Failure(CtxError(ctxErr)), attempt + 1))
          /\ sent' = sent
     ELSE /\ pc' = "inflight"
          /\ attempt' = attempt + 1
          /\ sent' = sent + 1
          /\ UNCHANGED <<result, off, acc, resp, doGetRet, reqs, gots, wait, opened>>
  /\ UNCHANGED <<client, args, calls, ctxErr, cancelAt, sentAtCancel, closed>>

\* the attempt ends with a response or an error
Respond ==
  /\ pc = "inflight"
  /\ \E r \in Outcomes(args.op, Batch(args.keys, off))
              \cup (IF ctxErr # "none" THEN {Failure(CtxError(ctxErr))} ELSE {}) :
       Set(RetryDo(r, attempt))
  /\ UNCHANGED <<client, args, calls, ctxErr, sent, cancelAt, sentAtCancel, closed>>

\* the backoff timer fires
BackoffTimer ==
  /\ pc = "backoff"
  /\ pc' = "do"
  /\ wait' = 0
  /\ UNCHANGED <<client, args, calls, ctxErr, attempt, sent, resp, result, off, acc,
                 doGetRet, cancelAt, sentAtCancel, reqs, gots, opened, closed>>

\* the context is done during the backoff wait: Do returns ctx.Err()
BackoffDone ==
  /\ pc = "backoff"
  /\ ctxErr # "none"
  /\ Set(DoFailed(URLError(CtxError(ctxErr)), attempt, resp))
  /\ UNCHANGED <<client, args, calls, ctxErr, sent, cancelAt, sentAtCancel, closed>>

(***************************************************************************)
(* A caller-supplied *http.Client: one call of its Do, with any outcome.   *)
(***************************************************************************)
CustomDo ==
  /\ pc = "do"
  /\ client.httpClient.kind = "custom"
  /\ \E r \in Outcomes(args.op, Batch(args.keys, off))
              \cup (IF ctxErr # "none" THEN {Failure(CtxError(ctxErr))} ELSE {}) :
       IF r.err # NoError
       THEN Set(DoFailed(r.err, attempt + 1, r))
       ELSE Set(Step("read", result, off, acc, attempt + 1, r, NoRet))
  /\ sent' = sent + 1
  /\ UNCHANGED <<client, args, calls, ctxErr, cancelAt, sentAtCancel, closed>>

(***************************************************************************)
(* io.ReadAll(resp.Body) and the rest of doGet and of the operation; the    *)
(* deferred resp.Body.Close() runs as doGet returns.                       *)
(***************************************************************************)
\* a doGet that closes the body only after a successful read
ReadBody_LeakOnReadError ==
  /\ pc = "read"
  /\ \/ /\ Set(DoGetStatus(attempt, resp))
        /\ closed' = closed + 1
     \/ /\ \E cause \in {NetError} :
             Set(AfterDoGet(NoBody, Wrap("read response body", cause), attempt, resp))
        /\ closed' = closed
  /\ UNCHANGED <<client, args, calls, ctxErr, sent, cancelAt, sentAtCancel>>

ReadBody ==
  /\ pc = "read"
  /\ \/ Set(DoGetStatus(attempt, resp))
     \/ \E cause \in {NetError} \cup (IF ctxErr # "none" THEN {CtxError(ctxErr)} ELSE {}) :
          Set(AfterDoGet(NoBody, Wrap("read response body", cause), attempt, resp))
  /\ closed' = closed + 1
  /\ UNCHANGED <<client, args, calls, ctxErr, sent, cancelAt, sentAtCancel>>

\* an operation that marks the Client unusable once a call has failed
Return_MarksFailed ==
  /\ pc = "returned"
  /\ pc' = "idle"
  /\ ctxErr' = "none"
  /\ attempt' = 0
  /\ sent' = 0
  /\ resp' = NoResponse
  /\ off' = 0
  /\ acc' = NoData
  /\ doGetRet' = NoRet
  /\ cancelAt' = "never"
  /\ sentAtCancel' = 0
  /\ args' = NoArgs
  /\ result' = NoResult
  /\ reqs' = <<>>
  /\ gots' = <<>>
  /\ wait' = 0
  /\ opened' = 0
  /\ closed' = 0
  /\ client' = IF result.err # NoError
               THEN [client EXCEPT !.httpClient = NilClient.httpClient]
               ELSE client
  /\ UNCHANGED calls

\* the caller takes the result; the Client is ready for the next operation
Return ==
  /\ pc = "returned"
  /\ pc' = "idle"
  /\ ctxErr' = "none"
  /\ attempt' = 0
  /\ sent' = 0
  /\ resp' = NoResponse
  /\ off' = 0
  /\ acc' = NoData
  /\ doGetRet' = NoRet
  /\ cancelAt' = "never"
  /\ sentAtCancel' = 0
  /\ args' = NoArgs
  /\ result' = NoResult
  /\ reqs' = <<>>
  /\ gots' = <<>>
  /\ wait' = 0
  /\ opened' = 0
  /\ closed' = 0
  /\ UNCHANGED <<client, calls>>

Next ==
  \/ CallNewClient
  \/ Call
  \/ Cancel
  \/ StartAttempt
  \/ Respond
  \/ BackoffTimer
  \/ BackoffDone
  \/ CustomDo
  \/ ReadBody
  \/ Return

Spec == Init /\ [][Next]_vars

(***************************************************************************)
(* The pure functions on their own: parseResponse applied to a body and     *)
(* the classification predicates applied to an *APIError, for inputs the    *)
(* operations above do not all produce.                                    *)
(***************************************************************************)
\* StatusCode values of the *APIError classified
MinStatus == 100
MaxStatus == 600
StatusCodes == MinStatus..MaxStatus

\* JSON that does not fit the envelope struct: another type for a field, or
\* no object at all
MistypedBody == [form |-> "mistyped", success |-> FALSE, message |-> "", data |-> <<>>]

\* the bodies parseResponse is applied to
ParseInputs ==
  {EmptyBody, TextBody, MistypedBody}
  \cup {Envelope(ok, m, d) : ok \in BOOLEAN, m \in {"", "token not found"},
                             d \in {<<>>, TokenData, PriceMap(KeyList(2)), OtherPrices}}

\* the four predicates of an *APIError
Classification(e) ==
  [IsNotFound |-> IsNotFound(e), IsRateLimited |-> IsRateLimited(e),
   IsServerError |-> IsServerError(e), IsClientError |-> IsClientError(e)]

\* deepest wrapper chain given to IsAPIError
MaxDepth == 3

\* the errors met when unwrapping an error from the outside: wrappers made by
\* fmt.Errorf("...: %w", err), *APIError values and errors of other types
ErrElems ==
  {Err("wrap", 0, "execute request", "", NoBody), Head(NetError),
   Head(APIError(404, TextBody, "/defi/price")),
   Head(APIError(500, EmptyBody, "/defi/multi_price"))}
ErrChains == UNION {[1..n -> ErrElems] : n \in 0..MaxDepth}

\* the configurations an option is applied to
Configs == {ApplyOptions(DefaultConfig, opts) : opts \in OptSeqs}

\* the inputs: a response (its status and body), an error, or a configuration
\* (in acc) and an option
PureInit ==
  /\ pc = "pure"
  /\ client = NilClient
  /\ calls = 0
  /\ ctxErr = "none"
  /\ attempt = 0
  /\ sent = 0
  /\ \/ /\ resp \in {Response(st, EmptyBody) : st \in StatusCodes}
                    \cup {Response(200, b) : b \in ParseInputs}
        /\ doGetRet = NoRet
        /\ args = NoArgs
        /\ acc = NoData
     \/ /\ resp = NoResponse
        /\ doGetRet \in {Ret(NoBody, e) : e \in ErrChains}
        /\ args = NoArgs
        /\ acc = NoData
     \/ /\ resp = NoResponse
        /\ doGetRet = NoRet
        /\ args \in {Args("ApplyOption", "", <<o>>, "", <<>>) : o \in Options}
        /\ acc \in Configs
  /\ result = NoResult
  /\ off = 0
  /\ cancelAt = "never"
  /\ sentAtCancel = 0
  /\ reqs = <<>>
  /\ gots = <<>>
  /\ wait = 0
  /\ opened = 0
  /\ closed = 0

\* parseResponse(body)
Parse ==
  /\ pc = "pure"
  /\ resp.kind = "status"
  /\ pc' = "parsed"
  /\ result' = parseResponse(resp.body)
  /\ UNCHANGED <<client, args, calls, ctxErr, attempt, sent, resp, off, acc,
                 doGetRet, cancelAt, sentAtCancel, reqs, gots, wait, opened, closed>>

\* e.IsNotFound(), e.IsRateLimited(), e.IsServerError(), e.IsClientError() of
\* e = &APIError{StatusCode, Message, Path}
Classify ==
  /\ pc = "pure"
  /\ resp.kind = "status"
  /\ pc' = "classified"
  /\ \E op \in Ops :
       LET err == APIError(resp.status, resp.body, Path(op))
       IN result' = Result(Classification(Head(err)), FALSE, err)
  /\ UNCHANGED <<client, args, calls, ctxErr, attempt, sent, resp, off, acc,
                 doGetRet, cancelAt, sentAtCancel, reqs, gots, wait, opened, closed>>

\* IsAPIError(err)
Inspect ==
  /\ pc = "pure"
  /\ resp.kind = "none"
  /\ args.op = "none"
  /\ pc' = "inspected"
  /\ LET r == IsAPIError(doGetRet.err)
     IN result' = Result(r.e, ~r.ok, doGetRet.err)
  /\ UNCHANGED <<client, args, calls, ctxErr, attempt, sent, resp, off, acc,
                 doGetRet, cancelAt, sentAtCancel, reqs, gots, wait, opened, closed>>

\* opt(cfg) for one Option
Apply ==
  /\ pc = "pure"
  /\ args.op = "ApplyOption"
  /\ pc' = "applied"
  /\ result' = Result(ApplyOption(acc, Head(args.opts)), FALSE, NoError)
  /\ UNCHANGED <<client, args, calls, ctxErr, attempt, sent, resp, off, acc,
                 doGetRet, cancelAt, sentAtCancel, reqs, gots, wait, opened, closed>>

PureNext ==
  \/ Parse
  \/ Classify
  \/ Inspect
  \/ Apply

PureSpec == PureInit /\ [][PureNext]_vars

(***************************************************************************)
(* Properties.                                                             *)
(***************************************************************************)
\* the outcomes the retry policy is documented to retry
Retriable(r) ==
  \/ r.kind = "error"
  \/ r.kind = "status" /\ (r.status = 429 \/ r.status >= 500)

\* io.ReadAll failed in the doGet that returned last
ReadFailed ==
  /\ doGetRet.err # NoError
  /\ Head(doGetRet.err).msg = "read response body"

RetryMax == client.httpClient.RetryMax

\* C1: with the built-in transport, a doGet that stops on a response whose
\* status is not 200 (a 429 or a 5xx at the end of the retry budget included)
\* returns an *APIError with that status, the response body as Message and the
\* requested path.
C1_NonOKIsAPIError ==
  (/\ pc = "returned"
   /\ BuiltIn
   /\ ctxErr = "none"
   /\ resp.kind = "status"
   /\ resp.status # 200
   /\ ~ReadFailed)
  => LET a == IsAPIError(doGetRet.err) IN
     /\ a.ok
     /\ a.e.code = resp.status
     /\ a.e.body = resp.body
     /\ a.e.path = Path(args.op)

\* C2: with the built-in transport and a live context, an attempt's outcome is
\* followed by a retry if and only if it is a connection error, a 429 or a
\* status >= 500 (given that a retry is left); after any other response the
\* doGet makes no further attempt.
C2_RetryIffRetriable ==
  [][/\ (BuiltIn /\ pc = "inflight" /\ pc' # "inflight" /\ ctxErr = "none")
        => /\ pc' = "backoff" => Retriable(resp')
           /\ (Retriable(resp') /\ attempt <= RetryMax) => pc' = "backoff"
           /\ ~Retriable(resp') => (pc' = "read" /\ attempt' = attempt)
     /\ (BuiltIn /\ pc = "read") => (attempt' = attempt \/ (pc' = "do" /\ attempt' = 0))
    ]_vars

C2_Witness ==
  /\ pc = "returned"
  /\ BuiltIn
  /\ RetryMax > 0
  /\ ctxErr = "none"
  /\ resp.kind = "status"
  /\ resp.status = 404
  /\ attempt = 1

\* C3: with the built-in transport a doGet makes at most maxRetries retries
\* after its first attempt; when every attempt had a retriable outcome it ends
\* with an error, after exactly maxRetries retries if the context stayed live;
\* with maxRetries = 0 a doGet that got an outcome made exactly one attempt.
C3_RetriedUpToMaxRetries ==
  BuiltIn =>
    /\ attempt <= RetryMax + 1
    /\ (pc = "returned" /\ resp.kind # "none" /\ Retriable(resp))
         => /\ doGetRet.err # NoError
            /\ result.err # NoError
            /\ result.isNil
            /\ ctxErr = "none" => attempt = RetryMax + 1
    /\ (RetryMax = 0 /\ resp.kind # "none") => attempt = 1

C3_Witness ==
  /\ pc = "returned"
  /\ BuiltIn
  /\ RetryMax = 1
  /\ attempt = 2
  /\ resp.kind = "status"
  /\ resp.status = 429
  /\ result.err # NoError

\* C4 as stated: with maxRetries >= 1 the attempts of one doGet (the first one
\* and the retries) never exceed maxRetries.
C4_AttemptsAtMostMaxRetries ==
  (BuiltIn /\ RetryMax >= 1) => attempt <= RetryMax

\* C4 amended: with maxRetries >= 1 the attempts of one doGet never exceed
\* maxRetries + 1: the first attempt and maxRetries retries.
C4_AttemptsAtMostMaxRetriesPlusOne ==
  (BuiltIn /\ RetryMax >= 1) => attempt <= RetryMax + 1

C4_Witness ==
  /\ BuiltIn
  /\ RetryMax >= 1
  /\ attempt = RetryMax + 1
  /\ pc = "returned"

\* C5: with the built-in transport, once the context is done (before the first
\* attempt, during an attempt or during a backoff wait) no further request is
\* sent, whatever is left of the retry budget, and the doGet returns an error
\* that carries the context's error.
C5_CancelStopsRetries ==
  BuiltIn =>
    /\ ctxErr # "none" => sent = sentAtCancel
    /\ (/\ pc = "returned"
        /\ cancelAt \in {"before", "do", "inflight", "backoff"}
        /\ attempt >= 1)
       => /\ CarriesCtxError(doGetRet.err, ctxErr)
          /\ CarriesCtxError(result.err, ctxErr)
          /\ result.isNil

C5_Witness ==
  /\ pc = "returned"
  /\ BuiltIn
  /\ cancelAt = "backoff"
  /\ attempt <= RetryMax
  /\ CarriesCtxError(result.err, ctxErr)

\* the arguments pass the operation's validation
ArgsValid ==
  IF args.op = "GetMultiplePrices"
  THEN \A j \in 1..Len(args.keys) : args.keys[j] # ""
  ELSE args.address # ""

EmptyKeyList == args.op = "GetMultiplePrices" /\ Len(args.keys) = 0

\* C6 as stated: every operation called with an already-cancelled context, with
\* any arguments, returns a cancellation error.
C6_CancelledReturnsCtxError ==
  (pc = "returned" /\ cancelAt = "before")
  => /\ result.err # NoError
     /\ CarriesCtxError(result.err, ctxErr)

\* C6 amended: an operation called with an already-cancelled context on a
\* Client with the built-in transport sends no request; it returns the
\* validation APIError (status 400) for an empty address or a key list holding
\* an empty string, an empty mapping and no error for an empty key list, the
\* request-construction error when the URL cannot be built, and otherwise no
\* value and an error that carries the context's error.
C6_CancelledAfterValidation ==
  (pc = "returned" /\ cancelAt = "before" /\ BuiltIn)
  => /\ sent = 0
     /\ IF EmptyKeyList
        THEN result = Result(NoData, FALSE, NoError)
        ELSE IF ~ArgsValid
        THEN LET a == IsAPIError(result.err) IN
             a.ok /\ a.e.code = 400 /\ a.e.path = Path(args.op) /\ result.isNil
        ELSE IF ~ParsesOK(client.baseURL)
        THEN result.isNil /\ Head(result.err).msg = "create request"
        ELSE /\ result.isNil
             /\ CarriesCtxError(result.err, ctxErr)
             /\ ~IsAPIError(result.err).ok

C6_Witness ==
  /\ pc = "returned"
  /\ cancelAt = "before"
  /\ BuiltIn
  /\ args.op = "GetMultiplePrices"
  /\ Len(args.keys) > batchSize
  /\ ArgsValid
  /\ CarriesCtxError(result.err, "canceled")

\* what a doGet returns when its last attempt got the response r, which is not
\* retried, and read its body
FinalOutcome(r, path) ==
  IF r.status = 200 THEN Ret(r.body, NoError)
  ELSE Ret(NoBody, APIError(r.status, r.body, path))

\* C7: with the built-in transport a doGet returns nothing while it retries
\* and returns once; what it returns follows from its last attempt alone: the
\* body and no error when that attempt got a 200 (after any number of retried
\* attempts), the APIError of a response that is not retried, an error that is
\* no APIError when the last outcome was a retriable one.
C7_OnlyFinalAttemptSurfaces ==
  BuiltIn =>
    /\ pc \in {"do", "inflight", "backoff", "read"}
         => (doGetRet = NoRet /\ result = NoResult)
    /\ (/\ pc = "returned"
        /\ resp.kind # "none"
        /\ cancelAt \in {"never", "read"}
        /\ ~ReadFailed)
       => IF Retriable(resp)
          THEN /\ doGetRet.err # NoError
               /\ doGetRet.body = NoBody
               /\ ~IsAPIError(doGetRet.err).ok
               /\ Head(doGetRet.err).msg = "execute request"
          ELSE doGetRet = FinalOutcome(resp, Path(args.op))

C7_Witness ==
  /\ pc = "returned"
  /\ BuiltIn
  /\ attempt = 3
  /\ resp.kind = "status"
  /\ resp.status = 200
  /\ resp.body.form = "envelope"
  /\ doGetRet = Ret(resp.body, NoError)
  /\ result.err = NoError

\* the argument of the last WithHTTPClient option of opts ("none": no such option)
RECURSIVE LastHTTPClientOption(_)
LastHTTPClientOption(opts) ==
  IF opts = <<>> THEN "none"
  ELSE IF opts[Len(opts)].name = "WithHTTPClient" THEN opts[Len(opts)].s
  ELSE LastHTTPClientOption(SubSeq(opts, 1, Len(opts) - 1))

\* C8: when the last WithHTTPClient option carries a non-nil client, the Client
\* uses exactly that client, and a doGet calls its Do once and never again,
\* whatever status or error the call yields.
C8_CustomClientBypassesRetry ==
  /\ (/\ pc = "idle"
      /\ args.op = "NewClient"
      /\ LastHTTPClientOption(args.opts) \notin {"none", NilHTTP})
     => /\ client.httpClient.kind = "custom"
        /\ client.httpClient.id = LastHTTPClientOption(args.opts)
  /\ (/\ pc = "idle"
      /\ args.op = "NewClient"
      /\ LastHTTPClientOption(args.opts) \in {"none", NilHTTP})
     => client.httpClient.kind = "retry"
  /\ client.httpClient.kind = "custom"
     => /\ attempt <= 1
        /\ pc \notin {"inflight", "backoff"}
        /\ resp.kind # "none" => attempt = 1
        /\ (pc = "returned" /\ resp.kind = "error")
             => doGetRet.err = Wrap("execute request", resp.err)

C8_Witness ==
  /\ pc = "returned"
  /\ client.httpClient.kind = "custom"
  /\ client.httpClient.id = UserHTTP
  /\ resp.kind = "status"
  /\ resp.status = 503
  /\ attempt = 1
  /\ IsAPIError(result.err).ok

\* C9: NewClient fails, returning no Client, if and only if apiKey is empty;
\* with a non-empty apiKey and no options the Client has that apiKey, the
\* default base URL, the no-op logger and the retrying transport with
\* timeout 10 s, 3 retries and retry waits between 500 ms and 3 s.
C9_NewClientDefaults ==
  args.op = "NewClient" =>
    /\ result.err # NoError <=> args.apiKey = ""
    /\ args.apiKey = ""
         => (pc = "start" /\ client = NilClient /\ result.isNil)
    /\ args.apiKey # "" => (pc = "idle" /\ client.apiKey = args.apiKey)
    /\ (args.apiKey # "" /\ args.opts = <<>>)
         => client = [apiKey |-> args.apiKey,
                      baseURL |-> "https://public-api.birdeye.so",
                      logger |-> NoopLogger,
                      httpClient |-> [kind |-> "retry", id |-> NilHTTP,
                                      RetryMax |-> 3, RetryWaitMin |-> 500,
                                      RetryWaitMax |-> 3000, Timeout |-> 10000]]

C9_Witness ==
  /\ pc = "idle"
  /\ args.op = "NewClient"
  /\ args.apiKey = OtherAPIKey
  /\ args.opts = <<>>
  /\ client.apiKey = OtherAPIKey
  /\ client.logger = NoopLogger

\* C10: every Client a successful NewClient returned has a non-empty apiKey, a
\* non-nil HTTP transport and a non-nil logger, whatever options were passed.
C10_ClientWellFormed ==
  pc # "start" =>
    /\ client.apiKey # ""
    /\ client.httpClient.kind # "nil"
    /\ client.logger # NilLogger

\* the position in opts of the last option built by the constructor `name`
\* (0: opts holds no such option)
LastWriter(opts, name) ==
  LET S == {j \in 1..Len(opts) : opts[j].name = name}
  IN IF S = {} THEN 0 ELSE CHOOSE j \in S : \A k \in S : k <= j

\* C11: options take effect in the order they are passed and the last writer
\* wins: in the Client NewClient returns, every configuration field has the
\* value written by the last option of the list that sets that field, and the
\* default when no option sets it (the timeout, the retry count and the retry
\* waits show in the retrying transport, which is built when the effective
\* HTTP client is nil).
C11_LastWriterWins ==
  (pc = "idle" /\ args.op = "NewClient") =>
    LET opts == args.opts
        bu == LastWriter(opts, "WithBaseURL")
        to == LastWriter(opts, "WithTimeout")
        mr == LastWriter(opts, "WithMaxRetries")
        rw == LastWriter(opts, "WithRetryWait")
        lg == LastWriter(opts, "WithLogger")
        hc == LastWriter(opts, "WithHTTPClient")
        h == IF hc = 0 THEN NilHTTP ELSE opts[hc].s
    IN
    /\ client.baseURL = IF bu = 0 THEN "https://public-api.birdeye.so" ELSE opts[bu].s
    /\ client.logger = IF lg = 0 THEN NoopLogger ELSE opts[lg].s
    /\ IF h # NilHTTP
       THEN client.httpClient.kind = "custom" /\ client.httpClient.id = h
       ELSE /\ client.httpClient.kind = "retry"
            /\ client.httpClient.Timeout = IF to = 0 THEN 10000 ELSE opts[to].n
            /\ client.httpClient.RetryMax = IF mr = 0 THEN 3 ELSE opts[mr].n
            /\ client.httpClient.RetryWaitMin = IF rw = 0 THEN 500 ELSE opts[rw].n
            /\ client.httpClient.RetryWaitMax = IF rw = 0 THEN 3000 ELSE opts[rw].m

C11_Witness ==
  /\ pc = "idle"
  /\ args.op = "NewClient"
  /\ Len(args.opts) = 2
  /\ args.opts[1].name = "WithMaxRetries"
  /\ args.opts[2].name = "WithMaxRetries"
  /\ args.opts[1].n # args.opts[2].n
  /\ client.httpClient.kind = "retry"
  /\ client.httpClient.RetryMax = args.opts[2].n

\* C12: when a doGet returned a well-formed envelope with success = false, the
\* operation (any of the four, at its path) returns no value and an error
\* that is not an APIError (IsAPIError is false on it); the error's message is
\* the server-supplied message, after the fixed prefix "birdeye api error: ",
\* when that message is non-empty, and the generic
\* "birdeye api returned success=false" otherwise.
C12_SuccessFalseIsNotAPIError ==
  (/\ pc = "returned"
   /\ doGetRet.err = NoError
   /\ doGetRet.body.form = "envelope"
   /\ ~doGetRet.body.success)
  => /\ result.isNil
     /\ result.val = NoData
     /\ result.err # NoError
     /\ ~IsAPIError(result.err).ok
     /\ Len(result.err) = 1
     /\ Head(result.err).msg =
          IF doGetRet.body.message # ""
          THEN "birdeye api error: " \o doGetRet.body.message
          ELSE "birdeye api returned success=false"

C12_Witness ==
  /\ pc = "returned"
  /\ args.op = "GetTokenSecurity"
  /\ resp.kind = "status"
  /\ resp.status = 200
  /\ doGetRet.body = Envelope(FALSE, "token not found", <<>>)
  /\ result.isNil
  /\ Head(result.err).msg = "birdeye api error: token not found"
  /\ ~IsAPIError(result.err).ok

\* C13: parseResponse returns a payload and no error if and only if the bytes
\* are a well-formed envelope with success = true, and the payload is then
\* exactly the envelope's data field (the message is dropped); bytes that are
\* not well-formed for the envelope yield no payload and a decode error that
\* wraps the parser's error; in every case exactly one of payload and error is
\* returned.
C13_ParseResponse ==
  pc = "parsed" =>
    LET b == resp.body
        wellFormed == b.form = "envelope"
    IN
    /\ (~result.isNil /\ result.err = NoError) <=> (wellFormed /\ b.success)
    /\ (wellFormed /\ b.success) => result.val = b.data
    /\ ~wellFormed
         => /\ result.isNil
            /\ Len(result.err) = 2
            /\ result.err[1].kind = "wrap"
            /\ result.err[1].msg = "unmarshal response"
            /\ result.err[2].kind = "json"
    /\ result.isNil <=> result.err # NoError
    /\ result.isNil => result.val = NoData

C13_Witness ==
  /\ pc = "parsed"
  /\ resp.body = Envelope(TRUE, "token not found", TokenData)
  /\ result = Result(TokenData, FALSE, NoError)

\* C14: GetMultiplePrices called with a key list of length 0 returns an empty
\* mapping that is not nil and no error, and sends nothing: no doGet call, no
\* call of the HTTP client, no request on the wire.
C14_EmptyListNoCalls ==
  (pc = "returned" /\ EmptyKeyList)
  => /\ result = Result(NoData, FALSE, NoError)
     /\ reqs = <<>>
     /\ attempt = 0
     /\ sent = 0
     /\ resp = NoResponse

C14_Witness ==
  /\ pc = "returned"
  /\ EmptyKeyList
  /\ ctxErr = "none"
  /\ ~result.isNil
  /\ result.val = NoData
  /\ result.err = NoError
  /\ sent = 0

\* the key list of a GetMultiplePrices call holds an empty string
HasEmptyKey ==
  /\ args.op = "GetMultiplePrices"
  /\ \E j \in 1..Len(args.keys) : args.keys[j] = ""

\* C15 as stated: for a key list holding an empty string at any position,
\* GetMultiplePrices fails with a validation error that is not an APIError,
\* and sends nothing.
C15_EmptyKeyIsValidationError ==
  (pc = "returned" /\ HasEmptyKey)
  => /\ result.isNil
     /\ result.err # NoError
     /\ ~IsAPIError(result.err).ok
     /\ reqs = <<>>
     /\ sent = 0

\* C15 amended: for a key list holding an empty string at any position (a
\* position after the first 100 keys included), GetMultiplePrices returns no
\* mapping and an *APIError with StatusCode 400, the message "address list
\* contains empty string" and the path /defi/multi_price (the code has no
\* error type of its own for caller input), and sends nothing: no doGet call,
\* no call of the HTTP client, no request on the wire.
C15_EmptyKeyIsAPIError400 ==
  (pc = "returned" /\ HasEmptyKey)
  => LET a == IsAPIError(result.err) IN
     /\ result.isNil
     /\ result.val = NoData
     /\ a.ok
     /\ a.e.code = 400
     /\ a.e.msg = "address list contains empty string"
     /\ a.e.path = "/defi/multi_price"
     /\ IsClientError(a.e)
     /\ reqs = <<>>
     /\ attempt = 0
     /\ sent = 0
     /\ resp = NoResponse

C15_Witness ==
  /\ pc = "returned"
  /\ args.op = "GetMultiplePrices"
  /\ Len(args.keys) = batchSize + 1
  /\ args.keys[batchSize + 1] = ""
  /\ \A j \in 1..batchSize : args.keys[j] # ""
  /\ IsAPIError(result.err).ok
  /\ reqs = <<>>
  /\ sent = 0

\* the keys a comma-joined list_address value carries
Split(value) == [j \in 1..((Len(value) + 1) \div 2) |-> value[2 * j - 1]]

\* the keys of the first k requests, one after the other
RECURSIVE KeysOf(_, _)
KeysOf(rs, k) ==
  IF k = 0 THEN <<>> ELSE KeysOf(rs, k - 1) \o Split(rs[k].value)

\* the number of chunks of a key list of length n: ceil(n / 100)
Chunks(n) == (n + 99) \div 100

\* C16: in a GetMultiplePrices call with a valid key list of length N >= 1
\* (looked at when a doGet call has just been made and when the call has
\* returned), the k-th doGet call asks /defi/multi_price for list_address = the keys at
\* positions 100(k-1)+1 .. min(100k, N), in input order, joined by commas, so
\* each chunk has between 1 and 100 keys and never more than ceil(N/100)
\* calls are made; when all chunks succeeded exactly ceil(N/100) calls were
\* made and their keys, one chunk after the other, are the input list.
C16_ChunksOfHundred ==
  (args.op = "GetMultiplePrices" /\ pc \in {"do", "panicked", "returned"}) =>
    LET N == Len(args.keys) IN
    /\ Len(reqs) <= Chunks(N)
    /\ \A k \in 1..Len(reqs) :
         LET from == 100 * (k - 1) + 1
             to == IF 100 * k < N THEN 100 * k ELSE N
         IN /\ reqs[k].path = "/defi/multi_price"
            /\ reqs[k].name = "list_address"
            /\ Len(reqs[k].value) % 2 = 1
            /\ Split(reqs[k].value) = SubSeq(args.keys, from, to)
            /\ \A j \in 1..Len(reqs[k].value) :
                 j % 2 = 0 <=> reqs[k].value[j] = ","
            /\ Len(Split(reqs[k].value)) \in 1..100
    /\ (pc = "returned" /\ result.err = NoError /\ N >= 1)
         => /\ Len(reqs) = Chunks(N)
            /\ KeysOf(reqs, Len(reqs)) = args.keys

C16_Witness ==
  /\ pc = "returned"
  /\ args.op = "GetMultiplePrices"
  /\ Len(args.keys) = 101
  /\ result.err = NoError
  /\ Len(reqs) = 2
  /\ Len(Split(reqs[1].value)) = 100
  /\ Split(reqs[2].value) = <<"101">>

\* C17: when all chunks of a GetMultiplePrices call succeeded, the mapping
\* returned has exactly the keys that appear in at least one chunk's decoded
\* response (a requested key the server left out is absent, and that is no
\* error), and each key's value is the one of the last-issued chunk whose
\* response holds the key.
C17_MergedMapping ==
  (/\ pc = "returned"
   /\ args.op = "GetMultiplePrices"
   /\ Len(args.keys) >= 1
   /\ result.err = NoError)
  => /\ ~result.isNil
     /\ Len(gots) = Len(reqs)
     /\ gots[Len(gots)] = resp.body.data
     /\ DOMAIN result.val = UNION {DOMAIN gots[k] : k \in 1..Len(gots)}
     /\ \A key \in DOMAIN result.val :
          LET holders == {k \in 1..Len(gots) : key \in DOMAIN gots[k]}
              last == CHOOSE k \in holders : \A k2 \in holders : k2 <= k
          IN result.val[key] = gots[last][key]

C17_Witness ==
  /\ pc = "returned"
  /\ args.op = "GetMultiplePrices"
  /\ result.err = NoError
  /\ Len(gots) = 2
  /\ DOMAIN gots[1] = {args.keys[j] : j \in 1..100}
  /\ gots[1]["1"] = 2
  /\ gots[2] = OtherPrices
  /\ result.val["1"] = 3
  /\ "101" \notin DOMAIN result.val
  /\ "100" \in DOMAIN result.val

\* C18: GetMultiplePrices is all-or-nothing: when a chunk fails (its doGet
\* returns an error, a transport error, an APIError or the context's error
\* among them, or its body does not decode or says success=false), that chunk
\* is the last one asked for, and the call returns that chunk's error and no
\* mapping: the prices of the chunks before it are not returned.
C18_AllOrNothing ==
  (/\ pc = "returned"
   /\ args.op = "GetMultiplePrices"
   /\ reqs # <<>>
   /\ result.err # NoError)
  => /\ result.isNil
     /\ result.val = NoData
     /\ Len(reqs) = Len(gots) + 1
     /\ Len(reqs) = (off \div 100) + 1
     /\ result.err = IF doGetRet.err # NoError
                      THEN doGetRet.err
                      ELSE parseResponse(doGetRet.body).err

C18_Witness ==
  /\ pc = "returned"
  /\ args.op = "GetMultiplePrices"
  /\ Len(args.keys) = 101
  /\ Len(reqs) = 2
  /\ Len(gots) = 1
  /\ DOMAIN gots[1] # {}
  /\ cancelAt = "inflight"
  /\ CarriesCtxError(result.err, "canceled")
  /\ result.isNil

\* C19: the chunks of one GetMultiplePrices call are issued one after the
\* other: at any time at most one chunk has been asked for and not yet
\* decoded, and it is the last one asked for; the doGet call for chunk k+1 is
\* made in the step that ends chunk k: chunk k's response has been received
\* with status 200, its body is read and decoded in that step, and its prices
\* are merged into the result before the call.
C19_ChunksSequential ==
  [][/\ args'.op = "GetMultiplePrices"
        => /\ Len(reqs') - Len(gots') \in {0, 1}
           /\ pc' \in {"do", "inflight", "backoff", "read"}
                => Len(reqs') = Len(gots') + 1
           /\ pc' = "inflight" => sent' >= Len(reqs')
     /\ (args.op = "GetMultiplePrices" /\ Len(reqs) >= 1 /\ Len(reqs') > Len(reqs))
        => /\ Len(reqs') = Len(reqs) + 1
           /\ pc = "read"
           /\ resp.kind = "status"
           /\ resp.status = 200
           /\ resp.body.form = "envelope"
           /\ resp.body.success
           /\ Len(gots) = Len(reqs) - 1
           /\ gots' = Append(gots, resp.body.data)
           /\ DOMAIN acc' = DOMAIN acc \cup DOMAIN resp.body.data
           /\ \A key \in DOMAIN resp.body.data : acc'[key] = resp.body.data[key]
           /\ off' = off + 100
    ]_vars

C19_Witness ==
  /\ pc = "inflight"
  /\ args.op = "GetMultiplePrices"
  /\ Len(reqs) = 2
  /\ Len(gots) = 1
  /\ off = 100
  /\ DOMAIN acc = DOMAIN gots[1]
  /\ DOMAIN acc # {}

\* C20: the predicates of an *APIError depend on its StatusCode alone:
\* IsNotFound holds iff the status is 404, IsRateLimited iff it is 429,
\* IsServerError iff it is >= 500, IsClientError iff it is in 400..499; so for
\* 404 and for 429 IsClientError holds together with IsNotFound or
\* IsRateLimited.
C20_Classification ==
  pc = "classified" =>
    LET st == Head(result.err).code
        c == result.val
    IN
    /\ st = resp.status
    /\ c.IsNotFound <=> st = 404
    /\ c.IsRateLimited <=> st = 429
    /\ c.IsServerError <=> st >= 500
    /\ c.IsClientError <=> (400 <= st /\ st <= 499)
    /\ st = 404 => (c.IsNotFound /\ c.IsClientError)
    /\ st = 429 => (c.IsRateLimited /\ c.IsClientError)

C20_Witness ==
  /\ pc = "classified"
  /\ resp.status = 429
  /\ Head(result.err).path = "/defi/token_security"
  /\ result.val.IsRateLimited
  /\ result.val.IsClientError
  /\ ~result.val.IsNotFound
  /\ ~result.val.IsServerError

\* C21: IsAPIError returns (e, true) for every error whose chain, of any
\* depth, holds an *APIError, e being the first one met when unwrapping from
\* the outside; it returns (nil, false) for the nil error and for every error
\* whose chain holds no *APIError.
C21_IsAPIError ==
  pc = "inspected" =>
    LET chain == doGetRet.err
        S == {i \in 1..Len(chain) : chain[i].kind = "APIError"}
    IN
    /\ S = {} => (result.isNil /\ result.val.kind = "none")
    /\ S # {} => /\ ~result.isNil
                 /\ \E i \in S : /\ \A j \in S : i <= j
                                  /\ result.val = chain[i]

C21_Witness ==
  /\ pc = "inspected"
  /\ Len(doGetRet.err) = 3
  /\ doGetRet.err[1].kind = "wrap"
  /\ doGetRet.err[2].kind = "APIError"
  /\ doGetRet.err[3].kind = "APIError"
  /\ doGetRet.err[2].code # doGetRet.err[3].code
  /\ ~result.isNil
  /\ result.val = doGetRet.err[2]

C23_BodyClosedOnce ==
  pc \in {"idle", "do", "inflight", "backoff", "read", "returned", "panicked"} =>
    /\ closed <= opened
    /\ opened <= closed + 1
    /\ pc = "read" <=> opened = closed + 1
    /\ pc = "read" => resp.kind = "status"
    /\ (pc = "returned" /\ doGetRet.err = NoError /\ reqs # <<>>)
         => (opened = Len(reqs) /\ closed = Len(reqs))
    /\ (pc = "returned" /\ IsAPIError(doGetRet.err).ok) => closed >= 1
    /\ opened <= Len(reqs)

C23_Witness ==
  /\ pc = "returned"
  /\ ReadFailed
  /\ args.op = "GetMultiplePrices"
  /\ Len(reqs) = 2
  /\ opened = 2
  /\ closed = 2

\* C24: GetPrice, GetTokenOverview and GetTokenSecurity called with an empty
\* address return no value and an error on which IsAPIError succeeds, with
\* StatusCode 400 and the path of the operation's endpoint, and they send
\* nothing: no doGet call, no call of the HTTP client, no request on the wire.
C24_EmptyAddressIsAPIError400 ==
  (/\ pc = "returned"
   /\ args.op \in {"GetPrice", "GetTokenOverview", "GetTokenSecurity"}
   /\ args.address = "")
  => LET a == IsAPIError(result.err) IN
     /\ result.isNil
     /\ a.ok
     /\ a.e.code = 400
     /\ a.e.path = (CASE args.op = "GetPrice" -> "/defi/price"
                      [] args.op = "GetTokenOverview" -> "/defi/token_overview"
                      [] args.op = "GetTokenSecurity" -> "/defi/token_security")
     /\ reqs = <<>>
     /\ attempt = 0
     /\ sent = 0
     /\ resp = NoResponse

C24_Witness ==
  /\ pc = "returned"
  /\ args.op = "GetTokenOverview"
  /\ args.address = ""
  /\ IsAPIError(result.err).ok
  /\ Head(result.err).path = "/defi/token_overview"
  /\ sent = 0

\* C25 (the bounds it states): with the built-in transport, the wait before a
\* retry lies between retryWaitMin and retryWaitMax inclusive, for every
\* configured pair of bounds and every retriable outcome.
C25_WaitWithinBounds ==
  (BuiltIn /\ pc = "backoff")
  => /\ client.httpClient.RetryWaitMin <= wait
     /\ wait <= client.httpClient.RetryWaitMax

\* C26: a logger never aborts a request: whatever Logger the Client was built
\* with, the nil one WithLogger(nil) leaves included, a doGet whose request
\* could be built goes on to the HTTP client and returns.
C26_LoggerNeverAborts ==
  (reqs # <<>> /\ ParsesOK(client.baseURL))
  => pc \in {"do", "inflight", "backoff", "read", "returned"}

\* the fields of config
Fields ==
  {"baseURL", "timeout", "maxRetries", "retryWaitMin", "retryWaitMax", "logger",
   "httpClient"}

\* the fields in which the configuration after the option differs from the one
\* before it
Changed == {f \in Fields : result.val[f] # acc[f]}

\* C27 as stated: applying any single option changes one configuration field
\* and leaves every other field unchanged.
C27_OneFieldPerOption ==
  pc = "applied" => \E f \in Fields : Changed \subseteq {f}

\* the fields an option writes, with the values it writes there
Written(o) ==
  CASE o.name = "WithBaseURL" -> [f \in {"baseURL"} |-> o.s]
    [] o.name = "WithTimeout" -> [f \in {"timeout"} |-> o.n]
    [] o.name = "WithMaxRetries" -> [f \in {"maxRetries"} |-> o.n]
    [] o.name = "WithRetryWait" ->
         [f \in {"retryWaitMin", "retryWaitMax"} |->
            IF f = "retryWaitMin" THEN o.n ELSE o.m]
    [] o.name = "WithLogger" -> [f \in {"logger"} |-> o.s]
    [] o.name = "WithHTTPClient" -> [f \in {"httpClient"} |-> o.s]

\* C27 amended: applying a single option writes the option's own field, the
\* two fields retryWaitMin and retryWaitMax in the case of WithRetryWait, with
\* the option's arguments, and leaves every other field unchanged.
C27_OwnFieldsPerOption ==
  pc = "applied" =>
    LET w == Written(Head(args.opts)) IN
    /\ \A f \in DOMAIN w : result.val[f] = w[f]
    /\ \A f \in Fields \ DOMAIN w : result.val[f] = acc[f]
    /\ Changed \subseteq DOMAIN w

C27_Witness ==
  /\ pc = "applied"
  /\ Head(args.opts).name = "WithRetryWait"
  /\ acc.maxRetries = 0
  /\ acc.logger = UserLogger
  /\ Changed = {"retryWaitMin", "retryWaitMax"}
  /\ result.val.maxRetries = 0
  /\ result.val.logger = UserLogger

\* C28: the retry budget is per doGet call, not per batch: every doGet call of
\* GetMultiplePrices starts with no attempt counted, a retriable outcome is
\* retried whenever that doGet has made at most maxRetries attempts, whatever
\* the earlier chunks used, and so a batch that made c doGet calls has put at
\* most c * (maxRetries + 1) requests on the wire, a number it can reach.
C28_BudgetPerChunk ==
  [][(BuiltIn /\ args'.op = "GetMultiplePrices")
     => /\ sent' <= Len(reqs') * (RetryMax + 1)
        /\ Len(reqs') > Len(reqs) => attempt' = 0
        /\ (/\ pc = "inflight"
            /\ pc' # "inflight"
            /\ ctxErr = "none"
            /\ Retriable(resp')
            /\ attempt <= RetryMax)
           => (pc' = "backoff" /\ attempt' = attempt)
    ]_vars

C28_Witness ==
  /\ pc = "returned"
  /\ BuiltIn
  /\ args.op = "GetMultiplePrices"
  /\ RetryMax = 1
  /\ Len(reqs) = 2
  /\ Len(gots) = 2
  /\ sent = 4
  /\ attempt = 2
  /\ result.err = NoError

\* the option is none of WithTimeout, WithMaxRetries, WithRetryWait
NotRetryOption(o) == o.name \notin {"WithTimeout", "WithMaxRetries", "WithRetryWait"}

\* C29: when the effective HTTP client is a caller's (the last WithHTTPClient
\* carries a non-nil client), WithTimeout, WithMaxRetries and WithRetryWait
\* have no effect wherever they stand in the option list: the Client is the
\* one NewClient builds from the list without those options, and nothing in
\* it holds their values.
C29_CustomClientIgnoresRetryOptions ==
  (/\ pc = "idle"
   /\ args.op = "NewClient"
   /\ LastHTTPClientOption(args.opts) \notin {"none", NilHTTP})
  => /\ client = NewClient(args.apiKey, SelectSeq(args.opts, NotRetryOption)).client
     /\ client.httpClient =
          [kind |-> "custom", id |-> LastHTTPClientOption(args.opts), RetryMax |-> 0,
           RetryWaitMin |-> 0, RetryWaitMax |-> 0, Timeout |-> 0]

C29_Witness ==
  /\ pc = "idle"
  /\ args.op = "NewClient"
  /\ Len(args.opts) = 2
  /\ args.opts[1].name = "WithHTTPClient"
  /\ args.opts[1].s = UserHTTP
  /\ args.opts[2].name = "WithTimeout"
  /\ client.httpClient.kind = "custom"

\* the last doGet of the operation got a response and read its body
BodyRead ==
  /\ pc = "returned"
  /\ reqs # <<>>
  /\ opened = Len(reqs)
  /\ ~ReadFailed

\* C30: doGet takes only status 200 for success: when it has read the body of
\* the response, it returns the body bytes if and only if the status is 200;
\* for any other status, another 2xx such as 201 included, it returns no body
\* and an *APIError with that status, and for a 2xx status none of IsNotFound,
\* IsRateLimited, IsClientError, IsServerError holds on it; a doGet that
\* returns an error returns no body.
C30_Only200IsSuccess ==
  /\ (pc = "returned" /\ doGetRet.err # NoError) => doGetRet.body = NoBody
  /\ BodyRead =>
       LET a == IsAPIError(doGetRet.err) IN
       /\ resp.kind = "status"
       /\ resp.status = 200 <=> doGetRet.err = NoError
       /\ resp.status = 200 => doGetRet.body = resp.body
       /\ resp.status # 200
            => /\ doGetRet.body = NoBody
               /\ a.ok
               /\ a.e.code = resp.status
               /\ a.e.body = resp.body
               /\ result.isNil
       /\ (200 < resp.status /\ resp.status <= 299)
            => /\ ~IsNotFound(a.e)
               /\ ~IsRateLimited(a.e)
               /\ ~IsClientError(a.e)
               /\ ~IsServerError(a.e)

C30_Witness ==
  /\ BodyRead
  /\ BuiltIn
  /\ resp.status = 201
  /\ resp.body = TextBody
  /\ IsAPIError(doGetRet.err).ok
  /\ Head(doGetRet.err).code = 201
  /\ doGetRet.body = NoBody

====
